---- MODULE Spec2Model ----
(***************************************************************************)
(* A state-machine model of gif_processor.GIFProcessor (resize,            *)
(* create_slack_stamp and its reduction ladder, optimize_with_pygifsicle,  *)
(* get_frame_count, get_info) and of utils.validate_image_size.            *)
(*                                                                         *)
(* GIF bytes are abstracted to what the code observes of them: the number  *)
(* of frames, the geometry, the timing metadata, the byte length and the   *)
(* optimizer level last applied.  The image library (decode, encode) and   *)
(* the external optimizer are the environment: what they answer (a byte    *)
(* length, a fault) is chosen nondeterministically at each step.           *)
(***************************************************************************)
EXTENDS Integers, Sequences, FiniteSets, TLC

(***************************************************************************)
(* constants.py                                                            *)
(***************************************************************************)
SLACK_STAMP_MAX_SIZE_KB == 128
SLACK_STAMP_MAX_SIZE_BYTES == SLACK_STAMP_MAX_SIZE_KB * 1024
SLACK_STAMP_SIZE == 128
SLACK_STAMP_MAX_FRAMES == 50
MIN_IMAGE_SIZE == 10
MAX_IMAGE_SIZE == 2000
DEFAULT_DURATION == 100
DEFAULT_LOOP == 0
SLACK_OPTIMIZATION_QUALITY_START == 30
SLACK_OPTIMIZATION_QUALITY_MIN == 5
SLACK_OPTIMIZATION_QUALITY_STEP == 5
SLACK_OPTIMIZATION_DURATION_MAX == 50
SLACK_AGGRESSIVE_MAX_FRAMES == 20
SLACK_AGGRESSIVE_DURATION == 30

\* PYGIFSICLE_OPTIMIZATION_LEVELS.get(optimization_level, 1)
PYGIFSICLE_OPTIMIZATION_LEVELS(optimization_level) ==
    CASE optimization_level = "standard" -> 1
      [] optimization_level = "optimized" -> 2
      [] optimization_level = "aggressive" -> 3
      [] OTHER -> 1

\* max_frames = 10 of _ultra_optimize_for_slack, and its stride (frame_index * 2)
ULTRA_MAX_FRAMES == 10
ULTRA_STRIDE == 2
\* the palette sizes handed to quantize, and the palette of an unquantized frame
FULL_COLORS == 256
SLACK_COLORS == 128
ULTRA_COLORS == 64
\* 'quality': 1 of the ultra rung's save_kwargs
ULTRA_QUALITY == 1

(***************************************************************************)
(* Bounds of the model.                                                    *)
(***************************************************************************)
\* the longest source animation
MaxSrcFrames == 51
\* how far above the ceiling the largest encoded size lies, as a multiple
OverFactor == 2

Min(a, b) == IF a <= b THEN a ELSE b

\* frame counts of the sources: the short ones, and those around each frame cap
SrcFrameCounts ==
    {n \in 0..MaxSrcFrames :
        \/ n <= 3
        \/ n \in {SLACK_AGGRESSIVE_MAX_FRAMES, SLACK_AGGRESSIVE_MAX_FRAMES + 1}
        \/ n >= SLACK_STAMP_MAX_FRAMES}
\* the 'duration' (ms) and 'loop' entries of the sources' info, each present
\* or missing: no duration with a finite loop count, and a short duration
\* with no loop count
SrcTimings == {<< << >>, << 2 >> >>, << << 40 >>, << >> >>}
\* the byte lengths an encode or an optimizer pass may answer: at the ceiling
\* and one above it
Sizes == {SLACK_STAMP_MAX_SIZE_BYTES, SLACK_STAMP_MAX_SIZE_BYTES + 1}
\* the last rung's encode may also answer a length far above the ceiling
UltraSizes == Sizes \cup {OverFactor * SLACK_STAMP_MAX_SIZE_BYTES}
\* width and height values: around both bounds, and the stamp size
Dims == {MIN_IMAGE_SIZE - 1, MIN_IMAGE_SIZE, SLACK_STAMP_SIZE, MAX_IMAGE_SIZE,
         MAX_IMAGE_SIZE + 1}
\* the (new_width, new_height) arguments of the calls: each bound met and
\* each bound crossed, in either dimension
Geometries ==
    {<< MIN_IMAGE_SIZE, MAX_IMAGE_SIZE >>, << MAX_IMAGE_SIZE, MIN_IMAGE_SIZE >>,
     << MIN_IMAGE_SIZE - 1, SLACK_STAMP_SIZE >>,
     << SLACK_STAMP_SIZE, MIN_IMAGE_SIZE - 1 >>,
     << MAX_IMAGE_SIZE + 1, SLACK_STAMP_SIZE >>,
     << SLACK_STAMP_SIZE, MAX_IMAGE_SIZE + 1 >>}
\* an optional integer (None or an int) is a sequence of length 0 or 1
None == << >>
Some(x) == << x >>
\* max_frames arguments
Caps == {None, Some(0), Some(1), Some(2), Some(SLACK_STAMP_MAX_FRAMES)}
Levels == {"standard", "optimized", "lightweight", "other"}
\* what can go wrong in one optimizer pass: nothing, creating the temporary
\* file, writing it, the optimize call, the read-back, the unlink
Faults == {"none", "create", "write", "optimize", "read", "unlink"}

(***************************************************************************)
(* GIF bytes and processors                                                *)
(***************************************************************************)
\* no bytes (a call that has produced none)
NoBytes ==
    [n |-> 0, w |-> 0, h |-> 0, duration |-> None, loop |-> None,
     quality |-> None, size |-> 0, opt |-> 0]

\* a source file: n frames of width x height; duration and loop are the
\* entries of its info, None when the file has none
SourceBytes(n, duration, loop, size) ==
    [n |-> n, w |-> 2 * SLACK_STAMP_SIZE, h |-> 2 * SLACK_STAMP_SIZE,
     duration |-> duration, loop |-> loop, quality |-> None, size |-> size,
     opt |-> 0]

extract_gif_info(gif_bytes) ==
    [width |-> gif_bytes.w, height |-> gif_bytes.h,
     duration |-> IF gif_bytes.duration = None THEN DEFAULT_DURATION
                  ELSE gif_bytes.duration[1],
     loop |-> IF gif_bytes.loop = None THEN DEFAULT_LOOP
              ELSE gif_bytes.loop[1]]

\* GIFProcessor.__init__
GIFProcessor(gif_bytes) ==
    [gif_bytes |-> gif_bytes, original_info |-> extract_gif_info(gif_bytes)]

NoProcessor == GIFProcessor(NoBytes)

\* get_frame_count: seek 0, 1, 2, ... until EOFError
RECURSIVE FrameCountLoop(_, _)
FrameCountLoop(gif_bytes, frame_count) ==
    IF frame_count < gif_bytes.n
    THEN FrameCountLoop(gif_bytes, frame_count + 1)
    ELSE frame_count

get_frame_count(processor) == FrameCountLoop(processor.gif_bytes, 0)

get_info(processor) ==
    [original_info |-> processor.original_info,
     frame_count |-> get_frame_count(processor),
     file_size |-> processor.gif_bytes.size]

(***************************************************************************)
(* utils.validate_image_size                                               *)
(***************************************************************************)
validate_image_size_no_upper(width, height) ==
    ~(width < MIN_IMAGE_SIZE \/ height < MIN_IMAGE_SIZE)

validate_image_size(width, height) ==
    IF width < MIN_IMAGE_SIZE \/ height < MIN_IMAGE_SIZE THEN FALSE
    ELSE IF width > MAX_IMAGE_SIZE \/ height > MAX_IMAGE_SIZE THEN FALSE
    ELSE TRUE

(***************************************************************************)
(* resize: the frame loop                                                  *)
(***************************************************************************)
\* Python truth of max_frames: None and 0 are false
TruthyNever(max_frames) == FALSE

Truthy(max_frames) == max_frames # None /\ max_frames[1] # 0

\* gif.copy().resize((new_width, new_height)) of frame frame_index
ResizedFrame(frame_index, new_width, new_height) ==
    [idx |-> frame_index, w |-> new_width, h |-> new_height,
     colors |-> FULL_COLORS]

\* the cap test at the head of the loop body
CapReached(max_frames, frame_index) ==
    Truthy(max_frames) /\ frame_index >= max_frames[1]

\* while True: stop at the cap, or at the EOFError of seek(frame_index)
RECURSIVE ResizeLoop(_, _, _, _, _, _)
ResizeLoop(gif, max_frames, new_width, new_height, frame_index, frames) ==
    IF CapReached(max_frames, frame_index) THEN frames
    ELSE IF frame_index >= gif.n THEN frames
    ELSE ResizeLoop(gif, max_frames, new_width, new_height, frame_index + 1,
                    Append(frames,
                           ResizedFrame(frame_index, new_width, new_height)))

\* frames[:max_frames] when optimize_for_slack and max_frames
SlackSlice(frames, optimize_for_slack, max_frames) ==
    IF optimize_for_slack /\ Truthy(max_frames)
    THEN SubSeq(frames, 1, Min(Len(frames), max_frames[1]))
    ELSE frames

\* frame.quantize(colors=colors, method=2)
quantize(frame, colors) == [frame EXCEPT !.colors = colors]

SaveKwargsSourceDuration(frames, original_info, optimize_for_slack) ==
    [append_images |-> IF Len(frames) > 1 THEN Tail(frames) ELSE << >>,
     duration |-> original_info.duration,
     loop |-> original_info.loop,
     quality |-> IF optimize_for_slack
                 THEN Some(SLACK_OPTIMIZATION_QUALITY_START) ELSE None,
     transparency |-> IF optimize_for_slack THEN Some(0) ELSE None,
     disposal |-> IF optimize_for_slack THEN Some(2) ELSE None]

\* the basic save_kwargs, then the update of the optimize_for_slack branch;
\* append_images is the slice frames[1:] taken when the dict is built
SaveKwargs(frames, original_info, optimize_for_slack) ==
    [append_images |-> IF Len(frames) > 1 THEN Tail(frames) ELSE << >>,
     duration |-> IF optimize_for_slack
                  THEN Min(original_info.duration, SLACK_OPTIMIZATION_DURATION_MAX)
                  ELSE original_info.duration,
     loop |-> original_info.loop,
     quality |-> IF optimize_for_slack
                 THEN Some(SLACK_OPTIMIZATION_QUALITY_START) ELSE None,
     transparency |-> IF optimize_for_slack THEN Some(0) ELSE None,
     disposal |-> IF optimize_for_slack THEN Some(2) ELSE None]

\* for i, frame in enumerate(frames): frames[i] = frame.quantize(colors=128)
QuantizeAll(frames) == [i \in 1..Len(frames) |-> quantize(frames[i], SLACK_COLORS)]

\* the frame sequence frames[0].save(output, **save_kwargs) serializes
EncodedFrames(frames, save_kwargs) == << frames[1] >> \o save_kwargs.append_images

\* the bytes of frames[0].save(...) when the encoder answers `size`
Encoded(frames, save_kwargs, size) ==
    [n |-> Len(EncodedFrames(frames, save_kwargs)),
     w |-> frames[1].w, h |-> frames[1].h,
     duration |-> Some(save_kwargs.duration), loop |-> Some(save_kwargs.loop),
     quality |-> save_kwargs.quality, size |-> size, opt |-> 0]

\* the guard of the quality descent
DescentContinuesNoFloor(result_bytes, quality) ==
    result_bytes.size > SLACK_STAMP_MAX_SIZE_BYTES

DescentContinues(result_bytes, quality) ==
    /\ result_bytes.size > SLACK_STAMP_MAX_SIZE_BYTES
    /\ quality > SLACK_OPTIMIZATION_QUALITY_MIN

\* quality -= SLACK_OPTIMIZATION_QUALITY_STEP
NextQualityTwoSteps(quality) == quality - 2 * SLACK_OPTIMIZATION_QUALITY_STEP

NextQuality(quality) == quality - SLACK_OPTIMIZATION_QUALITY_STEP

(***************************************************************************)
(* optimize_with_pygifsicle                                                *)
(***************************************************************************)
\* One pass over gif_bytes.  `available` is PYGIFSICLE_AVAILABLE, `fault` the
\* step of the pass that raises ("none": no step does) and `size` the byte
\* length of the optimized file.  Returns the bytes handed back and the
\* number of temporary files the pass leaves on disk.
OptimizeReadsBackOnFault(available, gif_bytes, optimization_level, fault, size) ==
    IF ~available THEN [bytes |-> gif_bytes, left |-> 0]
    ELSE IF fault \in {"create", "write", "optimize"}
         THEN [bytes |-> gif_bytes, left |-> IF fault = "create" THEN 0 ELSE 1]
    ELSE [bytes |-> [gif_bytes EXCEPT
                        !.size = size,
                        !.opt = PYGIFSICLE_OPTIMIZATION_LEVELS(optimization_level)],
          left |-> IF fault = "none" THEN 0 ELSE 1]

optimize_with_pygifsicle(available, gif_bytes, optimization_level, fault, size) ==
    IF ~available THEN [bytes |-> gif_bytes, left |-> 0]
    ELSE IF fault = "create"
         \* NamedTemporaryFile raises: no file exists
         THEN [bytes |-> gif_bytes, left |-> 0]
    ELSE IF fault \in {"write", "optimize", "read", "unlink"}
         \* the file exists (delete=False); the handler returns gif_bytes and
         \* does not unlink
         THEN [bytes |-> gif_bytes, left |-> 1]
    ELSE [bytes |-> [gif_bytes EXCEPT
                        !.size = size,
                        !.opt = PYGIFSICLE_OPTIMIZATION_LEVELS(optimization_level)],
          left |-> 0]

(***************************************************************************)
(* create_slack_stamp: the decisions of the ladder                         *)
(***************************************************************************)
\* current_size <= SLACK_STAMP_MAX_SIZE_BYTES
SizeOkAlways(current_result) == TRUE

SizeOk(current_result) == current_result.size <= SLACK_STAMP_MAX_SIZE_BYTES

\* len(final_result) > SLACK_STAMP_MAX_SIZE_BYTES
FinalTooBigNever(final_result) == FALSE

FinalTooBig(final_result) == final_result.size > SLACK_STAMP_MAX_SIZE_BYTES

\* frame_count > SLACK_STAMP_MAX_FRAMES of the "optimized" level
TooManyFrames(frame_count) == frame_count > SLACK_STAMP_MAX_FRAMES

\* max_frames of _force_optimize_for_slack
ForceMaxFramesUnreduced == SLACK_STAMP_MAX_FRAMES

ForceMaxFrames == Min(SLACK_STAMP_MAX_FRAMES, SLACK_AGGRESSIVE_MAX_FRAMES)

\* the processor _force_optimize_for_slack runs resize on: a new one
ForceProcessorSelf == "self"

ForceProcessor == "temp"

\* for step_name, optimize_func in optimization_steps: the step after `step`
NextStepSkips(step) == step + 2

NextStep(step) == step + 1

\* whether the call made for `ret` stands inside the try of the ladder's
\* loop (except Exception: print, continue): the force rung ("force") and
\* the ultra rung of the loop ("loop") do; the first resize and the final
\* ultra call do not
CaughtNever(ret) == FALSE

Caught(ret) == ret \in {"force", "loop"}

(***************************************************************************)
(* _ultra_optimize_for_slack: the frame loop                               *)
(***************************************************************************)
RECURSIVE UltraLoop(_, _, _)
UltraLoop(gif, frame_index, frames) ==
    IF ~(frame_index < ULTRA_MAX_FRAMES) THEN frames
    ELSE IF frame_index * ULTRA_STRIDE >= gif.n THEN frames
    ELSE UltraLoop(gif, frame_index + 1,
                   Append(frames,
                          quantize(ResizedFrame(frame_index * ULTRA_STRIDE,
                                                SLACK_STAMP_SIZE, SLACK_STAMP_SIZE),
                                   ULTRA_COLORS)))

UltraSaveKwargsSlackDuration(frames) ==
    [append_images |-> IF Len(frames) > 1 THEN Tail(frames) ELSE << >>,
     duration |-> SLACK_OPTIMIZATION_DURATION_MAX,
     loop |-> 0,
     quality |-> Some(ULTRA_QUALITY),
     transparency |-> Some(0),
     disposal |-> Some(2)]

UltraSaveKwargs(frames) ==
    [append_images |-> IF Len(frames) > 1 THEN Tail(frames) ELSE << >>,
     duration |-> SLACK_AGGRESSIVE_DURATION,
     loop |-> 0,
     quality |-> Some(ULTRA_QUALITY),
     transparency |-> Some(0),
     disposal |-> Some(2)]

(***************************************************************************)
(* State                                                                   *)
(***************************************************************************)
VARIABLES
    PYGIFSICLE_AVAILABLE, \* whether the import of pygifsicle succeeded
    env,        \* the environment: how the optimizer fails, and (when det)
                \* what the image library answers
    procs,      \* the processors: "self", and the "temp" one of the force rung
    pc,         \* the statement the running invocation is at
    call,       \* the running (or finished) top-level call and its arguments
    r,          \* locals of the running (or finished) resize
    s,          \* locals of the running (or finished) create_slack_stamp
    u,          \* locals of the running (or finished) _ultra_optimize_for_slack
    outcome,    \* what the finished top-level call returned or raised
    g,          \* observations of the running invocation
    det,        \* whether the environment is a function of the question
    first       \* the first completed call and its outcome, and whether a
                \* call with other arguments has completed since (when det)

vars == << PYGIFSICLE_AVAILABLE, env, procs, pc, call, r, s, u, outcome, g,
           det, first >>

\* what a call returns (bytes, or a count and the info) or raises (err, with
\* the numbers its message reports)
NoOutcome == [kind |-> "none", bytes |-> NoBytes, err |-> "", reported |-> 0,
              limit |-> 0, count |-> 0, info |-> extract_gif_info(NoBytes)]
Ok(bytes) == [NoOutcome EXCEPT !.kind = "ok", !.bytes = bytes]
Err(e) == [NoOutcome EXCEPT !.kind = "error", !.err = e]

NoCall == [op |-> "none", w |-> 0, h |-> 0, slack |-> FALSE, cap |-> None,
           level |-> ""]

NewResize(proc, w, h, slack, cap, ret) ==
    [proc |-> proc, w |-> w, h |-> h, slack |-> slack, cap |-> cap, ret |-> ret,
     frames |-> << >>,
     save_kwargs |-> SaveKwargs(<< >>, extract_gif_info(NoBytes), FALSE),
     quality |-> 0, result_bytes |-> NoBytes, saved |-> FALSE]

NoResize == NewResize("self", 0, 0, FALSE, None, "none")

NewStamp(level) ==
    [level |-> level, result |-> NoBytes, current_result |-> NoBytes,
     final_result |-> NoBytes, step |-> 0, caught |-> << >>]

NewUltra(gif_bytes, ret) ==
    [gif_bytes |-> gif_bytes, ret |-> ret, frames |-> << >>,
     save_kwargs |-> UltraSaveKwargs(<< >>), result |-> NoBytes, saved |-> FALSE,
     saves |-> 0]

\* observations, reset when a top-level call starts
G0 == [encodes |-> 0,          \* encodes (frames[0].save) performed
       seeks |-> 0,            \* frames sought, copied and resized
       tmp_files |-> 0,        \* temporary files of this invocation on disk
       passes |-> 0,           \* optimizer passes performed
       opt_ok |-> FALSE,       \* some optimizer pass handed back other bytes
       last_in |-> NoBytes,    \* input of the last optimizer pass
       last_out |-> NoBytes,   \* what the last optimizer pass returned
       last_encoded |-> NoBytes, \* bytes of the last encode
       rungs |-> << >>,        \* the rungs started, in order
       raised |-> << >>,       \* the hard errors raised inside rungs
       qualities |-> << >>,    \* quality of each encode of the last resize
       sizes |-> << >>,        \* what each of these encodes answered (0: raised)
       measured |-> << >>,     \* the lengths the ladder compared with the limit
       rung_frames |-> << >>]  \* per rung: its frame cap, the frames it encoded

Sources ==
    {SourceBytes(n, t[1], t[2], OverFactor * SLACK_STAMP_MAX_SIZE_BYTES) :
        n \in SrcFrameCounts, t \in SrcTimings}

\* The optimizer of one behaviour fails at one step of its pass, or at none
\* (the always-throwing and the working optimizer).  A pass that fails hands
\* back its input, as does a working pass that answers the input's length,
\* so the byte lengths a behaviour with occasional faults would see are seen.
\* When det, fit is the longest frame sequence whose encode stays within
\* the ceiling and broken the library call that raises.
Envs(deterministic) ==
    IF deterministic
    THEN [fault : {"none", "optimize"},
          fit : {0, ULTRA_MAX_FRAMES, SLACK_AGGRESSIVE_MAX_FRAMES,
                 SLACK_STAMP_MAX_FRAMES},
          broken : {"none", "frames", "open", "ultraframes", "encode"}]
    ELSE [fault : Faults, fit : {0}, broken : {"none"}]

InitWith(deterministic) ==
    /\ PYGIFSICLE_AVAILABLE \in BOOLEAN
    /\ env \in Envs(deterministic)
    /\ PYGIFSICLE_AVAILABLE \/ env.fault = "none"
    /\ \E src \in Sources :
          /\ deterministic => src.duration = None
          /\ procs = [self |-> GIFProcessor(src), temp |-> NoProcessor]
    /\ pc = "idle"
    /\ call = NoCall
    /\ r = NoResize
    /\ s = NewStamp("")
    /\ u = NewUltra(NoBytes, "none")
    /\ outcome = NoOutcome
    /\ g = G0
    /\ det = deterministic
    /\ first = [set |-> FALSE, call |-> NoCall, outcome |-> NoOutcome,
                mixed |-> FALSE]

Init == InitWith(FALSE)

InitDet == InitWith(TRUE)

(***************************************************************************)
(* The environment's answers                                               *)
(***************************************************************************)
\* an encode answers a byte length, or 0: the save raises
EncodeAnswers(sizes) == sizes \cup {0}

EncodeSays(frames, a) ==
    det => a = IF env.broken = "encode" THEN 0
               ELSE IF Len(frames) <= env.fit THEN SLACK_STAMP_MAX_SIZE_BYTES
               ELSE SLACK_STAMP_MAX_SIZE_BYTES + 1

\* a decode step (kind: "frames", "open", "ultraframes") succeeds or raises
DecodeSays(kind, ok) == det => ok = (env.broken # kind)

\* the byte length of the optimized file
OptimizerSays(gif_bytes, size) == det => size = gif_bytes.size

\* one optimizer pass and what it leaves in the observations
AfterPass(obs, gif_bytes, res) ==
    [obs EXCEPT !.tmp_files = @ + res.left,
                !.passes = @ + 1,
                !.opt_ok = @ \/ res.bytes # gif_bytes,
                !.last_in = gif_bytes,
                !.last_out = res.bytes]

(***************************************************************************)
(* How an invocation ends, and how resize hands over to its caller         *)
(***************************************************************************)
FinishCall(c, out) ==
    /\ pc' = "done"
    /\ outcome' = out
    /\ first' = IF det /\ ~first.set
                THEN [set |-> TRUE, call |-> c, outcome |-> out, mixed |-> FALSE]
                ELSE IF det /\ c # first.call
                THEN [first EXCEPT !.mixed = TRUE]
                ELSE first

Finish(out) == FinishCall(call, out)

Goto(label) ==
    /\ pc' = label
    /\ UNCHANGED << outcome, first >>

\* the calls made when det: one geometry of each kind
DetMenu(w, h, cap) ==
    det => /\ << w, h >> \in {<< MIN_IMAGE_SIZE, MAX_IMAGE_SIZE >>,
                              << MIN_IMAGE_SIZE - 1, SLACK_STAMP_SIZE >>}
           /\ cap \in {None, Some(2)}

\* an exception leaving resize: the ladder's loop catches the one of its
\* force rung and goes on with the next step; every other caller lets it
\* through
ResizeRaises(e) ==
    IF Caught(r.ret)
    THEN /\ Goto("l_step")
         /\ s' = [s EXCEPT !.caught = Append(@, e), !.step = NextStep(@)]
    ELSE /\ Finish(Err(e))
         /\ s' = s

ResizeReturns(result_bytes) ==
    CASE r.ret \in {"top", "standard"} ->
            Finish(Ok(result_bytes)) /\ s' = s
      [] r.ret = "optimized" ->
            Goto("s_framecheck") /\ s' = [s EXCEPT !.result = result_bytes]
      [] r.ret = "lightweight" ->
            Goto("l_aggressive") /\ s' = [s EXCEPT !.result = result_bytes]
      [] r.ret = "force" ->
            Goto("l_measure") /\ s' = [s EXCEPT !.current_result = result_bytes]

\* the rung a resize or an ultra pass runs for ("" outside the ladder)
RungOf(ret) ==
    CASE ret = "lightweight" -> "QualitySweep"
      [] ret = "force" -> "FrameReduction"
      [] ret = "loop" -> "UltraReduction"
      [] ret = "final" -> "UltraFinal"
      [] OTHER -> ""

\* rung RungOf(ret) hands `encoded` to the encoder for the first time,
\* having gathered its frames under the cap `cap`
RungEncodes(obs, ret, cap, encoded) ==
    IF RungOf(ret) = "" THEN obs
    ELSE [obs EXCEPT !.rung_frames =
              Append(@, [rung |-> RungOf(ret), cap |-> cap, n |-> Len(encoded)])]

\* the ladder takes len() of the bytes of rung `rung`
Measured(obs, rung, bytes) ==
    [obs EXCEPT !.measured = Append(@, [rung |-> rung, size |-> bytes.size])]

\* a hard error raised while rung RungOf(ret) runs
Raised(obs, ret, e) ==
    IF RungOf(ret) = "" THEN obs
    ELSE [obs EXCEPT !.raised =
              Append(@, [err |-> e, rung |-> RungOf(ret), at |-> Len(obs.rungs)])]

(***************************************************************************)
(* resize                                                                  *)
(***************************************************************************)
CallResize ==
    /\ pc = "idle"
    /\ \E geometry \in Geometries, slack \in BOOLEAN, cap \in Caps :
          /\ DetMenu(geometry[1], geometry[2], cap)
          /\ call' = [NoCall EXCEPT !.op = "resize", !.w = geometry[1],
                                    !.h = geometry[2], !.slack = slack,
                                    !.cap = cap]
          /\ r' = NewResize("self", geometry[1], geometry[2], slack, cap, "top")
    /\ pc' = "r_validate"
    /\ UNCHANGED << PYGIFSICLE_AVAILABLE, env, procs, s, u, outcome, g, det,
                    first >>

\* is_valid, error_msg = validate_image_size(...); if not is_valid: raise
ResizeValidate ==
    /\ pc = "r_validate"
    /\ IF validate_image_size(r.w, r.h)
       THEN /\ Goto("r_frames")
            /\ UNCHANGED << s, g >>
       ELSE /\ ResizeRaises("ValidationError")
            /\ g' = Raised(g, r.ret, "ValidationError")
    /\ UNCHANGED << PYGIFSICLE_AVAILABLE, env, procs, call, r, u, det >>

\* the frame loop, the empty check, the slice, save_kwargs and the quantize
ResizeFrames ==
    /\ pc = "r_frames"
    /\ LET gif == procs[r.proc].gif_bytes
           loop == ResizeLoop(gif, r.cap, r.w, r.h, 0, << >>)
           frames == SlackSlice(loop, r.slack, r.cap)
           save_kwargs == SaveKwargs(frames, procs[r.proc].original_info, r.slack)
       IN \E ok \in BOOLEAN :
             /\ DecodeSays("frames", ok)
             /\ IF ~ok
                THEN /\ ResizeRaises("DecodeError")
                     /\ g' = Raised(g, r.ret, "DecodeError")
                     /\ r' = r
                ELSE IF loop = << >>
                THEN /\ ResizeRaises("NoFrames")
                     /\ g' = Raised(g, r.ret, "NoFrames")
                     /\ r' = r
                ELSE /\ Goto("r_save")
                     /\ s' = s
                     /\ g' = [g EXCEPT !.seeks = @ + Len(loop)]
                     /\ r' = [r EXCEPT
                                !.frames = IF r.slack THEN QuantizeAll(frames)
                                           ELSE frames,
                                !.save_kwargs = save_kwargs]
    /\ UNCHANGED << PYGIFSICLE_AVAILABLE, env, procs, call, u, det >>

\* frames[0].save(output, **save_kwargs)
ResizeSave ==
    /\ pc = "r_save"
    /\ \E a \in EncodeAnswers(Sizes) :
          /\ EncodeSays(EncodedFrames(r.frames, r.save_kwargs), a)
          /\ IF a = 0
             THEN /\ ResizeRaises("EncodeError")
                  /\ g' = Raised([RungEncodes(g, r.ret, r.cap,
                                               EncodedFrames(r.frames, r.save_kwargs))
                                       EXCEPT !.encodes = @ + 1,
                                              !.qualities = << r.save_kwargs.quality >>,
                                              !.sizes = << a >>],
                                 r.ret, "EncodeError")
                  /\ r' = r
             ELSE LET result_bytes == Encoded(r.frames, r.save_kwargs, a)
                  IN /\ Goto(IF r.slack THEN "r_descent" ELSE "r_standard")
                     /\ s' = s
                     /\ g' = [RungEncodes(g, r.ret, r.cap,
                                           EncodedFrames(r.frames, r.save_kwargs))
                                EXCEPT !.encodes = @ + 1,
                                       !.last_encoded = result_bytes,
                                       !.qualities = << r.save_kwargs.quality >>,
                                       !.sizes = << a >>]
                     /\ r' = [r EXCEPT
                                !.result_bytes = result_bytes,
                                !.saved = TRUE,
                                !.quality = IF r.slack
                                            THEN r.save_kwargs.quality[1] ELSE 0]
    /\ UNCHANGED << PYGIFSICLE_AVAILABLE, env, procs, call, u, det >>

\* one turn of: while len(result_bytes) > ... and quality > ...
ResizeReencode ==
    /\ pc = "r_descent"
    /\ DescentContinues(r.result_bytes, r.quality)
    /\ LET quality == NextQuality(r.quality)
           save_kwargs == [r.save_kwargs EXCEPT !.quality = Some(quality)]
       IN \E a \in EncodeAnswers(Sizes) :
             /\ EncodeSays(EncodedFrames(r.frames, save_kwargs), a)
             /\ IF a = 0
                THEN /\ ResizeRaises("EncodeError")
                     /\ g' = Raised([g EXCEPT !.encodes = @ + 1,
                                              !.qualities = Append(@, Some(quality)),
                                              !.sizes = Append(@, a)],
                                    r.ret, "EncodeError")
                     /\ r' = [r EXCEPT !.quality = quality,
                                       !.save_kwargs = save_kwargs]
                ELSE LET result_bytes == Encoded(r.frames, save_kwargs, a)
                     IN /\ Goto("r_descent")
                        /\ s' = s
                        /\ g' = [g EXCEPT !.encodes = @ + 1,
                                          !.last_encoded = result_bytes,
                                          !.qualities = Append(@, Some(quality)),
                                          !.sizes = Append(@, a)]
                        /\ r' = [r EXCEPT !.quality = quality,
                                          !.save_kwargs = save_kwargs,
                                          !.result_bytes = result_bytes]
    /\ UNCHANGED << PYGIFSICLE_AVAILABLE, env, procs, call, u, det >>

\* the loop is left: optimize_with_pygifsicle(result_bytes, "optimized"), return
ResizeOptimized ==
    /\ pc = "r_descent"
    /\ ~DescentContinues(r.result_bytes, r.quality)
    /\ \E size \in Sizes :
          LET res == optimize_with_pygifsicle(PYGIFSICLE_AVAILABLE, r.result_bytes,
                                              "optimized", env.fault, size)
          IN /\ OptimizerSays(r.result_bytes, size)
             /\ g' = AfterPass(g, r.result_bytes, res)
             /\ r' = [r EXCEPT !.result_bytes = res.bytes]
             /\ ResizeReturns(res.bytes)
    /\ UNCHANGED << PYGIFSICLE_AVAILABLE, env, procs, call, u, det >>

\* the plain path: if PYGIFSICLE_AVAILABLE: optimize_with_pygifsicle(.., "standard")
ResizeStandard ==
    /\ pc = "r_standard"
    /\ IF PYGIFSICLE_AVAILABLE
       THEN \E size \in Sizes :
               LET res == optimize_with_pygifsicle(PYGIFSICLE_AVAILABLE,
                                                   r.result_bytes, "standard",
                                                   env.fault, size)
               IN /\ OptimizerSays(r.result_bytes, size)
                  /\ g' = AfterPass(g, r.result_bytes, res)
                  /\ r' = [r EXCEPT !.result_bytes = res.bytes]
                  /\ ResizeReturns(res.bytes)
       ELSE /\ ResizeReturns(r.result_bytes)
            /\ UNCHANGED << g, r >>
    /\ UNCHANGED << PYGIFSICLE_AVAILABLE, env, procs, call, u, det >>

(***************************************************************************)
(* get_frame_count, get_info                                               *)
(***************************************************************************)
CallGetFrameCount ==
    /\ pc = "idle"
    /\ call' = [NoCall EXCEPT !.op = "get_frame_count"]
    /\ FinishCall(call', [NoOutcome EXCEPT !.kind = "ok",
                                           !.count = get_frame_count(procs.self)])
    /\ UNCHANGED << PYGIFSICLE_AVAILABLE, env, procs, r, s, u, g, det >>

CallGetInfo ==
    /\ pc = "idle"
    /\ call' = [NoCall EXCEPT !.op = "get_info"]
    /\ LET info == get_info(procs.self)
       IN FinishCall(call', [NoOutcome EXCEPT !.kind = "ok",
                                              !.count = info.frame_count,
                                              !.reported = info.file_size,
                                              !.info = info.original_info])
    /\ UNCHANGED << PYGIFSICLE_AVAILABLE, env, procs, r, s, u, g, det >>

(***************************************************************************)
(* create_slack_stamp                                                      *)
(***************************************************************************)
\* f"{len(final_result) / 1024:.1f}": tenths of a KB, rounded half to even
KbTenths(size) ==
    LET whole == (size * 10) \div 1024
        rest == (size * 10) % 1024
    IN IF rest * 2 > 1024 THEN whole + 1
       ELSE IF rest * 2 < 1024 THEN whole
       ELSE IF whole % 2 = 0 THEN whole ELSE whole + 1

\* the ValueError raised when the final result is over the limit
SizeLimitError(final_result) ==
    [Err("SizeLimit") EXCEPT !.reported = KbTenths(final_result.size),
                             !.limit = SLACK_STAMP_MAX_SIZE_KB]

\* the ValueError of the "optimized" level's frame check
FrameLimitError(frame_count) ==
    [Err("FrameLimit") EXCEPT !.reported = frame_count,
                              !.limit = SLACK_STAMP_MAX_FRAMES]

CallCreateSlackStamp ==
    /\ pc = "idle"
    /\ \E level \in Levels :
          /\ call' = [NoCall EXCEPT !.op = "create_slack_stamp", !.level = level]
          /\ s' = NewStamp(level)
          /\ CASE level = "standard" ->
                    /\ r' = NewResize("self", SLACK_STAMP_SIZE, SLACK_STAMP_SIZE,
                                      FALSE, None, "standard")
                    /\ Goto("r_validate")
                    /\ g' = g
               [] level = "optimized" ->
                    /\ r' = NewResize("self", SLACK_STAMP_SIZE, SLACK_STAMP_SIZE,
                                      TRUE, Some(SLACK_STAMP_MAX_FRAMES), "optimized")
                    /\ Goto("r_validate")
                    /\ g' = g
               [] level = "lightweight" ->
                    /\ r' = NewResize("self", SLACK_STAMP_SIZE, SLACK_STAMP_SIZE,
                                      TRUE, Some(SLACK_STAMP_MAX_FRAMES), "lightweight")
                    /\ Goto("r_validate")
                    /\ g' = [g EXCEPT !.rungs = << "QualitySweep" >>]
               [] OTHER ->
                    /\ r' = r
                    /\ FinishCall(call', Err("InvalidLevel"))
                    /\ g' = g
    /\ UNCHANGED << PYGIFSICLE_AVAILABLE, env, procs, u, det >>

\* "optimized": temp_processor = GIFProcessor(result); the frame count check
StampFrameCheck ==
    /\ pc = "s_framecheck"
    /\ \E ok \in BOOLEAN :
          /\ DecodeSays("open", ok)
          /\ IF ~ok
             THEN Finish(Err("OpenError"))
             ELSE LET frame_count == get_frame_count(GIFProcessor(s.result))
                  IN IF TooManyFrames(frame_count)
                     THEN Finish(FrameLimitError(frame_count))
                     ELSE Finish(Ok(s.result))
    /\ UNCHANGED << PYGIFSICLE_AVAILABLE, env, procs, call, r, s, u, g, det >>

\* "lightweight": result = self.optimize_with_pygifsicle(result, "aggressive")
LadderAggressive ==
    /\ pc = "l_aggressive"
    /\ \E size \in Sizes :
          LET res == optimize_with_pygifsicle(PYGIFSICLE_AVAILABLE, s.result,
                                              "aggressive", env.fault, size)
          IN /\ OptimizerSays(s.result, size)
             /\ g' = AfterPass(g, s.result, res)
             /\ s' = [s EXCEPT !.result = res.bytes, !.step = 1]
    /\ Goto("l_step")
    /\ UNCHANGED << PYGIFSICLE_AVAILABLE, env, procs, call, r, u, det >>

\* step 1 of the loop: lambda: result, measured; no optimizer pass follows
LadderStandard ==
    /\ pc = "l_step"
    /\ s.step = 1
    /\ IF SizeOk(s.result)
       THEN /\ Finish(Ok(s.result))
            /\ s' = [s EXCEPT !.current_result = s.result]
       ELSE /\ Goto("l_step")
            /\ s' = [s EXCEPT !.current_result = s.result, !.step = NextStep(@)]
    /\ g' = Measured(g, "QualitySweep", s.result)
    /\ UNCHANGED << PYGIFSICLE_AVAILABLE, env, procs, call, r, u, det >>

\* step 2: _force_optimize_for_slack(result) builds a processor on result
\* and calls its resize
LadderForce ==
    /\ pc = "l_step"
    /\ s.step = 2
    /\ \E ok \in BOOLEAN :
          /\ DecodeSays("open", ok)
          /\ IF ~ok
             THEN /\ IF Caught("force")
                     THEN /\ Goto("l_step")
                          /\ s' = [s EXCEPT !.caught = Append(@, "OpenError"),
                                            !.step = NextStep(@)]
                     ELSE /\ Finish(Err("OpenError"))
                          /\ s' = s
                  /\ g' = Raised([g EXCEPT !.rungs = Append(@, "FrameReduction")],
                                 "force", "OpenError")
                  /\ UNCHANGED << procs, r >>
             ELSE /\ Goto("r_validate")
                  /\ s' = s
                  /\ g' = [g EXCEPT !.rungs = Append(@, "FrameReduction")]
                  /\ procs' = [procs EXCEPT ![ForceProcessor] = GIFProcessor(s.result)]
                  /\ r' = NewResize(ForceProcessor, SLACK_STAMP_SIZE, SLACK_STAMP_SIZE,
                                    TRUE, Some(ForceMaxFrames), "force")
    /\ UNCHANGED << PYGIFSICLE_AVAILABLE, env, call, u, det >>

\* step 3: _ultra_optimize_for_slack(result)
LadderUltra ==
    /\ pc = "l_step"
    /\ s.step = 3
    /\ Goto("u_frames")
    /\ u' = NewUltra(s.result, "loop")
    /\ g' = [g EXCEPT !.rungs = Append(@, "UltraReduction")]
    /\ UNCHANGED << PYGIFSICLE_AVAILABLE, env, procs, call, r, s, det >>

\* the measure of steps 2 and 3: within the limit, return
LadderAccept ==
    /\ pc = "l_measure"
    /\ SizeOk(s.current_result)
    /\ Finish(Ok(s.current_result))
    /\ g' = Measured(g, g.rungs[Len(g.rungs)], s.current_result)
    /\ UNCHANGED << PYGIFSICLE_AVAILABLE, env, procs, call, r, s, u, det >>

\* over the limit: one more optimizer pass, measured again
LadderReoptimize ==
    /\ pc = "l_measure"
    /\ ~SizeOk(s.current_result)
    /\ \E size \in Sizes :
          LET res == optimize_with_pygifsicle(PYGIFSICLE_AVAILABLE,
                                              s.current_result, "aggressive",
                                              env.fault, size)
          IN /\ OptimizerSays(s.current_result, size)
             /\ g' = Measured(Measured(AfterPass(g, s.current_result, res),
                                        g.rungs[Len(g.rungs)], s.current_result),
                               g.rungs[Len(g.rungs)], res.bytes)
             /\ IF SizeOk(res.bytes)
                THEN /\ Finish(Ok(res.bytes))
                     /\ s' = [s EXCEPT !.current_result = res.bytes]
                ELSE /\ Goto("l_step")
                     /\ s' = [s EXCEPT !.current_result = res.bytes,
                                       !.step = NextStep(@)]
    /\ UNCHANGED << PYGIFSICLE_AVAILABLE, env, procs, call, r, u, det >>

\* the loop is over: final_result = self._ultra_optimize_for_slack(result)
LadderLast ==
    /\ pc = "l_step"
    /\ s.step = 4
    /\ Goto("u_frames")
    /\ u' = NewUltra(s.result, "final")
    /\ g' = [g EXCEPT !.rungs = Append(@, "UltraFinal")]
    /\ UNCHANGED << PYGIFSICLE_AVAILABLE, env, procs, call, r, s, det >>

\* if len(final_result) > SLACK_STAMP_MAX_SIZE_BYTES: raise; return final_result
LadderFinal ==
    /\ pc = "l_final"
    /\ IF FinalTooBig(s.final_result)
       THEN Finish(SizeLimitError(s.final_result))
       ELSE Finish(Ok(s.final_result))
    /\ g' = Measured(g, "UltraFinal", s.final_result)
    /\ UNCHANGED << PYGIFSICLE_AVAILABLE, env, procs, call, r, s, u, det >>

(***************************************************************************)
(* _ultra_optimize_for_slack                                               *)
(***************************************************************************)
\* except Exception: raise ValueError(...): the loop catches it, the final
\* call lets it through
UltraRaises(e) ==
    IF Caught(u.ret)
    THEN /\ Goto("l_step")
         /\ s' = [s EXCEPT !.caught = Append(@, e), !.step = NextStep(@)]
    ELSE /\ Finish(Err(e))
         /\ s' = s

UltraReturns(result) ==
    IF u.ret = "loop"
    THEN /\ Goto("l_measure")
         /\ s' = [s EXCEPT !.current_result = result]
    ELSE /\ Goto("l_final")
         /\ s' = [s EXCEPT !.final_result = result]

\* the strided frame loop; with no frame, the fallback's seek(0) raises
UltraFrames ==
    /\ pc = "u_frames"
    /\ LET frames == UltraLoop(u.gif_bytes, 0, << >>)
       IN \E ok \in BOOLEAN :
             /\ DecodeSays("ultraframes", ok)
             /\ IF ~ok \/ frames = << >>
                THEN /\ UltraRaises("UltraError")
                     /\ g' = Raised(g, u.ret, "UltraError")
                     /\ u' = u
                ELSE /\ Goto("u_save")
                     /\ s' = s
                     /\ g' = [g EXCEPT !.seeks = @ + Len(frames)]
                     /\ u' = [u EXCEPT !.frames = frames,
                                       !.save_kwargs = UltraSaveKwargs(frames)]
    /\ UNCHANGED << PYGIFSICLE_AVAILABLE, env, procs, call, r, det >>

\* frames[0].save(output, **save_kwargs), once
UltraSave ==
    /\ pc = "u_save"
    /\ \E a \in EncodeAnswers(UltraSizes) :
          /\ EncodeSays(EncodedFrames(u.frames, u.save_kwargs), a)
          /\ IF a = 0
             THEN /\ UltraRaises("UltraError")
                  /\ g' = Raised([RungEncodes(g, u.ret, Some(ULTRA_MAX_FRAMES),
                                               EncodedFrames(u.frames, u.save_kwargs))
                                       EXCEPT !.encodes = @ + 1],
                                 u.ret, "UltraError")
                  /\ u' = u
             ELSE LET result == Encoded(u.frames, u.save_kwargs, a)
                  IN /\ Goto("u_optimize")
                     /\ s' = s
                     /\ g' = [RungEncodes(g, u.ret, Some(ULTRA_MAX_FRAMES),
                                           EncodedFrames(u.frames, u.save_kwargs))
                                EXCEPT !.encodes = @ + 1, !.last_encoded = result]
                     /\ u' = [u EXCEPT !.result = result, !.saved = TRUE,
                                       !.saves = @ + 1]
    /\ UNCHANGED << PYGIFSICLE_AVAILABLE, env, procs, call, r, det >>

\* result = self.optimize_with_pygifsicle(result, "aggressive"); return result
UltraOptimize ==
    /\ pc = "u_optimize"
    /\ \E size \in Sizes :
          LET res == optimize_with_pygifsicle(PYGIFSICLE_AVAILABLE, u.result,
                                              "aggressive", env.fault, size)
          IN /\ OptimizerSays(u.result, size)
             /\ g' = AfterPass(g, u.result, res)
             /\ u' = [u EXCEPT !.result = res.bytes]
             /\ UltraReturns(res.bytes)
    /\ UNCHANGED << PYGIFSICLE_AVAILABLE, env, procs, call, r, det >>

(***************************************************************************)
(* The caller takes the outcome; the locals of the call are gone           *)
(***************************************************************************)
Return ==
    /\ pc = "done"
    /\ pc' = "idle"
    /\ call' = NoCall
    /\ r' = NoResize
    /\ s' = NewStamp("")
    /\ u' = NewUltra(NoBytes, "none")
    /\ outcome' = NoOutcome
    /\ g' = G0
    /\ procs' = [procs EXCEPT !.temp = NoProcessor]
    /\ UNCHANGED << PYGIFSICLE_AVAILABLE, env, det, first >>

(***************************************************************************)
(* The specifications                                                      *)
(***************************************************************************)
Next ==
    \/ CallResize
    \/ ResizeValidate
    \/ ResizeFrames
    \/ ResizeSave
    \/ ResizeReencode
    \/ ResizeOptimized
    \/ ResizeStandard
    \/ CallGetFrameCount
    \/ CallGetInfo
    \/ CallCreateSlackStamp
    \/ StampFrameCheck
    \/ LadderAggressive
    \/ LadderStandard
    \/ LadderForce
    \/ LadderUltra
    \/ LadderAccept
    \/ LadderReoptimize
    \/ LadderLast
    \/ LadderFinal
    \/ UltraFrames
    \/ UltraSave
    \/ UltraOptimize
    \/ Return

\* the image library answers freely at every step
Spec == Init /\ [][Next]_vars

\* the image library and the optimizer answer as functions of the question
SpecDet == InitDet /\ [][Next]_vars

(***************************************************************************)
(* Properties                                                              *)
(***************************************************************************)
Done(op) == pc = "done" /\ call.op = op

DoneStamp(level) == Done("create_slack_stamp") /\ call.level = level

Returned == outcome.kind = "ok"

\* the rungs of a ladder that ran to its end
AllRungs == << "QualitySweep", "FrameReduction", "UltraReduction", "UltraFinal" >>

\* the encodes of one quality descent: the first and the re-encodes
DescentEncodes ==
    1 + (SLACK_OPTIMIZATION_QUALITY_START - SLACK_OPTIMIZATION_QUALITY_MIN)
            \div SLACK_OPTIMIZATION_QUALITY_STEP

\* C1: create_slack_stamp("lightweight") ends with bytes of at most 131072
\* bytes or with an error; it never returns longer bytes.
C1_LightweightWithinLimitOrError ==
    DoneStamp("lightweight") =>
        \/ Returned /\ outcome.bytes.size <= 131072
        \/ outcome.kind = "error" /\ outcome.bytes = NoBytes

\* a lightweight call returns bytes of exactly 131072 bytes, from the final
\* ultra call
C1_Witness ==
    /\ DoneStamp("lightweight")
    /\ Returned
    /\ outcome.bytes.size = 131072
    /\ g.rungs = AllRungs

\* C2 as claimed: every successful return of the "optimized" and of the
\* "lightweight" level has at most 131072 bytes and at most 50 frames.
C2_Original ==
    (\/ DoneStamp("optimized")
     \/ DoneStamp("lightweight")) /\ Returned =>
        outcome.bytes.size <= 131072 /\ outcome.bytes.n <= 50

\* C2 as amended: every successful return of the "lightweight" level has at
\* most 131072 bytes and at most 50 frames; every successful return of the
\* "optimized" level has at most 50 frames (its length is not checked).
C2_ConstrainedOutput ==
    /\ DoneStamp("lightweight") /\ Returned =>
          outcome.bytes.size <= 131072 /\ outcome.bytes.n <= 50
    /\ DoneStamp("optimized") /\ Returned => outcome.bytes.n <= 50

\* the "optimized" level returns 50 frames of a longer source, over the
\* ceiling, after the whole descent
C2_Witness ==
    /\ DoneStamp("optimized")
    /\ Returned
    /\ outcome.bytes.n = 50
    /\ procs.self.gif_bytes.n > 50
    /\ outcome.bytes.size > 131072
    /\ Len(g.qualities) = DescentEncodes

\* C3: a lightweight call encodes at most 6 times per quality descent and at
\* most 14 times in all; when the final rung's output is still over the
\* ceiling the call raises the size error, which reports that output's
\* size (in KB) and the 128 KB limit.
C3_LadderTermination ==
    call.level = "lightweight" =>
        /\ Len(g.qualities) <= DescentEncodes
        /\ g.encodes <= 2 * DescentEncodes + 2
        /\ (pc = "done" /\ s.final_result # NoBytes
                /\ s.final_result.size > 131072) =>
              /\ outcome.kind = "error"
              /\ outcome.err = "SizeLimit"
              /\ outcome.reported = KbTenths(s.final_result.size)
              /\ outcome.limit = 128
              /\ outcome.bytes = NoBytes
        /\ (pc = "done" /\ g.raised = << >> /\ ~Returned) =>
              /\ g.rungs = AllRungs
              /\ outcome.err = "SizeLimit"

\* every rung ran both of its descents to the floor, the final output is
\* far over the ceiling, and the error reports it
C3_Witness ==
    /\ DoneStamp("lightweight")
    /\ g.rungs = AllRungs
    /\ g.raised = << >>
    /\ g.encodes = 14
    /\ outcome.err = "SizeLimit"
    /\ outcome.reported > 1281
    /\ s.result.size > 131072
    /\ s.current_result.size > 131072

\* C4: validate_image_size accepts exactly the geometries within
\* [10, 2000] in both dimensions, and a resize with a rejected geometry
\* raises the validation error with no frame sought and nothing encoded.
InBounds(w, h) == 10 <= w /\ w <= 2000 /\ 10 <= h /\ h <= 2000

C4_ValidationFirst ==
    /\ \A w \in Dims, h \in Dims : validate_image_size(w, h) <=> InBounds(w, h)
    /\ (call.op = "resize" /\ ~InBounds(call.w, call.h)) =>
          /\ g.seeks = 0
          /\ g.encodes = 0
          /\ r.frames = << >>
          /\ ~r.saved
          /\ pc \in {"r_validate", "done"}
          /\ pc = "done" =>
                outcome = Err("ValidationError")
    /\ (Done("resize") /\ InBounds(call.w, call.h)) =>
          outcome.err # "ValidationError"

\* a resize whose width is one above the maximum has been rejected
C4_Witness ==
    /\ Done("resize")
    /\ call.w = 2001
    /\ call.h = 128
    /\ outcome.err = "ValidationError"
    /\ procs.self.gif_bytes.n > 0

\* C5: an optimizer pass hands back its input when the optimizer is
\* unavailable or any step of the pass raises, and then the bytes a call
\* returns are the bytes of its last encode.
C5_OptimizerAbsorbed ==
    (~PYGIFSICLE_AVAILABLE \/ env.fault # "none") =>
        /\ g.passes > 0 => g.last_out = g.last_in
        /\ ~g.opt_ok
        /\ (pc = "done" /\ Returned
                /\ call.op \in {"resize", "create_slack_stamp"}) =>
              outcome.bytes = g.last_encoded

\* with the read-back raising in every pass, a lightweight call returns the
\* bytes its force rung encoded
C5_Witness ==
    /\ DoneStamp("lightweight")
    /\ Returned
    /\ PYGIFSICLE_AVAILABLE
    /\ env.fault = "read"
    /\ g.passes >= 3
    /\ g.rungs = << "QualitySweep", "FrameReduction" >>
    /\ outcome.bytes = g.last_encoded

\* C6 as claimed: no temporary file of an optimizer pass is left once the
\* pass has returned.
C6_Original == g.tmp_files = 0

\* C7 as claimed: once a rung of the lightweight ladder has raised a hard
\* error, no later rung is started and the invocation ends with that error.
C7_Original ==
    \A i \in DOMAIN g.raised :
        /\ Len(g.rungs) = g.raised[i].at
        /\ pc = "done" => outcome = Err(g.raised[i].err)

\* C7 as amended: a hard error raised in the first (QualitySweep) resize or
\* in the final ultra call ends the invocation with that error and no later
\* rung starts; one raised inside the FrameReduction or UltraReduction rung
\* of the loop is caught, and the ladder goes on to the next rung.
C7_HardErrors ==
    \A i \in DOMAIN g.raised :
        IF g.raised[i].rung \in {"QualitySweep", "UltraFinal"}
        THEN /\ Len(g.rungs) = g.raised[i].at
             /\ pc = "done"
             /\ outcome = Err(g.raised[i].err)
        ELSE /\ g.raised[i].rung \in {"FrameReduction", "UltraReduction"}
             /\ pc # "done" => outcome = NoOutcome
             /\ pc = "done" => Len(g.rungs) > g.raised[i].at

\* the force rung raised, the ultra rung ran after it and its bytes were
\* returned
C7_Witness ==
    /\ DoneStamp("lightweight")
    /\ Returned
    /\ Len(g.raised) = 1
    /\ g.raised[1].rung = "FrameReduction"
    /\ g.rungs = << "QualitySweep", "FrameReduction", "UltraReduction" >>

\* C8 as claimed: for a source of n >= 1 frames, the frame sequence resize
\* encodes is source frames 0, 1, 2, ... in order, min(n, cap) of them
\* with a cap and n without.
C8_Original ==
    LET n == procs[r.proc].gif_bytes.n
        encoded == EncodedFrames(r.frames, r.save_kwargs)
    IN (r.saved /\ n >= 1) =>
          /\ Len(encoded) = IF r.cap = None THEN n ELSE Min(n, r.cap[1])
          /\ \A i \in DOMAIN encoded : encoded[i].idx = i - 1

\* C9 as claimed: a resize with a frame cap of 0 resamples no frame and
\* raises without encoding; and no resize encodes an empty frame sequence.
C9_Original ==
    /\ (r.cap = Some(0) /\ pc \notin {"r_validate", "r_frames"}) =>
          /\ r.frames = << >>
          /\ g.encodes = 0
          /\ pc = "done" => outcome.kind = "error"
    /\ r.saved => r.frames # << >>

\* C10: no step of any call changes the processor's gif_bytes or
\* original_info, and a call with the arguments of the first call returns
\* or raises what the first call did, whatever calls came between.
C10_NoSharedState ==
    /\ [][procs'.self = procs.self]_vars
    /\ [](pc = "done" /\ first.set /\ first.call = call
             => outcome = first.outcome)

\* a lightweight call that ran its force rung (on a processor of its own)
\* is repeated after a call with other arguments
C10_Witness ==
    /\ DoneStamp("lightweight")
    /\ first.set
    /\ first.mixed
    /\ first.call = call
    /\ outcome = first.outcome
    /\ "FrameReduction" \in {g.rungs[i] : i \in DOMAIN g.rungs}
    /\ procs.temp # NoProcessor

\* C11: the encodes of a constrained resize are made at qualities 30, 25,
\* 20, ... in this order, each 5 below the one before and none below 5;
\* every attempt but the last answered more than 131072 bytes at a quality
\* above 5, and once the descent is left the last attempt raised, answered
\* at most 131072 bytes or was made at quality 5: the attempts are a
\* function of what the encoder answers for the source and of the ceiling.
C11_QualityDescent ==
    (r.slack /\ r.saved) =>
        /\ Len(g.qualities) = Len(g.sizes)
        /\ \A i \in DOMAIN g.qualities :
              /\ g.qualities[i] = Some(30 - 5 * (i - 1))
              /\ g.qualities[i][1] >= 5
              /\ i < Len(g.qualities) =>
                    g.sizes[i] > 131072 /\ g.qualities[i][1] > 5
        /\ pc \notin {"r_save", "r_descent"} =>
              LET last == Len(g.qualities)
              IN \/ g.sizes[last] <= 131072
                 \/ g.qualities[last] = Some(5)

\* a constrained resize stopped at quality 20, its first attempt within
\* the ceiling
C11_Witness ==
    /\ Done("resize")
    /\ r.slack
    /\ Returned
    /\ g.qualities = << Some(30), Some(25), Some(20) >>
    /\ g.sizes = << 131073, 131073, 131072 >>

\* the rungs of a lightweight call are started in the ladder's order
RungsInOrder == \A k \in DOMAIN g.rungs : g.rungs[k] = AllRungs[k]

\* a length within the ceiling is the last one measured, it was measured on
\* the last rung started, and the call has returned that rung's bytes
FirstFitReturned ==
    \A i \in DOMAIN g.measured :
        g.measured[i].size <= 131072 =>
            /\ i = Len(g.measured)
            /\ g.measured[i].rung = g.rungs[Len(g.rungs)]
            /\ pc = "done"
            /\ Returned
            /\ outcome.bytes.size = g.measured[i].size
            /\ outcome.bytes = IF g.measured[i].rung = "UltraFinal"
                                THEN s.final_result ELSE s.current_result

MeasuredAbove(rung) ==
    \E i \in DOMAIN g.measured :
        g.measured[i].rung = rung /\ g.measured[i].size > 131072

RaisedIn(rung) == \E i \in DOMAIN g.raised : g.raised[i].rung = rung

\* C12 as claimed: the lightweight ladder starts its rungs in the order
\* QualitySweep, FrameReduction, UltraReduction; it returns the bytes of
\* the first rung measured at 131072 bytes or less and starts no rung after
\* it; and a rung is started only after the rung before it was measured
\* above 131072 bytes.
C12_Original ==
    call.level = "lightweight" =>
        /\ RungsInOrder
        /\ FirstFitReturned
        /\ (pc = "done" /\ Returned) =>
              g.measured # << >> /\ g.measured[Len(g.measured)].size <= 131072
        /\ \A k \in DOMAIN g.rungs :
              k > 1 => MeasuredAbove(g.rungs[k - 1])

\* C12 as amended: the same order and the same return of the first rung
\* measured within the ceiling; a rung is started only after the rung before
\* it was measured above 131072 bytes or raised an error the loop caught.
C12_LadderOrder ==
    call.level = "lightweight" =>
        /\ RungsInOrder
        /\ FirstFitReturned
        /\ (pc = "done" /\ Returned) =>
              g.measured # << >> /\ g.measured[Len(g.measured)].size <= 131072
        /\ \A k \in DOMAIN g.rungs :
              k > 1 => \/ MeasuredAbove(g.rungs[k - 1])
                       \/ RaisedIn(g.rungs[k - 1]) /\ Caught(
                              IF g.rungs[k - 1] = "FrameReduction"
                              THEN "force" ELSE "loop")

\* the first two rungs were measured above the ceiling, no rung raised, and
\* the bytes of the third rung are returned
C12_Witness ==
    /\ DoneStamp("lightweight")
    /\ Returned
    /\ g.raised = << >>
    /\ g.rungs = << "QualitySweep", "FrameReduction", "UltraReduction" >>
    /\ MeasuredAbove("QualitySweep")
    /\ MeasuredAbove("FrameReduction")
    /\ outcome.bytes = s.current_result
    /\ outcome.bytes.n = 10

\* C13 as claimed: every frame a constrained resize hands to the encoder,
\* the base frame and each appended frame, is the 128-colour quantized
\* version of its resized frame.
C13_Original ==
    (r.slack /\ r.saved) =>
        LET encoded == EncodedFrames(r.frames, r.save_kwargs)
        IN \A i \in DOMAIN encoded :
              encoded[i] = quantize(ResizedFrame(encoded[i].idx, r.w, r.h), 128)

\* what the ultra rung has encoded, of an input of n >= 1 frames: the input's
\* frames 0, 2, 4, ..., min(10, ceil(n/2)) >= 1 of them, with a duration
\* of 30 ms, in one encode
UltraShape ==
    LET n == u.gif_bytes.n
        encoded == EncodedFrames(u.frames, u.save_kwargs)
    IN /\ n >= 1
       /\ Len(encoded) = Min(10, (n + 1) \div 2)
       /\ Len(encoded) >= 1
       /\ \A i \in DOMAIN encoded : encoded[i].idx = 2 * (i - 1)
       /\ u.save_kwargs.duration = 30
       /\ u.result.n = Len(encoded)
       /\ u.result.duration = Some(30)
       /\ u.saves = 1

\* C14 as claimed: the ultra rung encodes every 2nd frame of its input,
\* min(10, ceil(n/2)) >= 1 frames of n >= 1, with a duration of 30 ms,
\* exactly once, at quality 5 (the floor of the descent).
C14_Original ==
    u.saved =>
        /\ UltraShape
        /\ u.save_kwargs.quality = Some(5)
        /\ u.result.quality = Some(5)

\* C14 as amended: the same frames, duration and single encode, at
\* quality 1.
C14_UltraRung ==
    u.saved =>
        /\ UltraShape
        /\ u.save_kwargs.quality = Some(1)
        /\ u.result.quality = Some(1)

\* the ultra rung has encoded frames 0, 2, ..., 18 of an input of 50 frames
C14_Witness ==
    /\ call.level = "lightweight"
    /\ u.saved
    /\ u.gif_bytes.n = 50
    /\ Len(u.frames) = 10
    /\ u.frames[10].idx = 18
    /\ pc = "l_measure"

\* the frame cap the claim gives each rung
ClaimedCap(rung) ==
    CASE rung = "QualitySweep" -> 50
      [] rung = "FrameReduction" -> 20
      [] OTHER -> 10

\* C15: the rungs of the lightweight ladder gather their frames under the
\* caps 50, 20 and 10, and no rung encodes more frames than a rung before
\* it; the FrameReduction rung is a constrained resize under the cap 20
\* whose encodes are made at 30, 25, ..., down to 5 when every attempt
\* stays over the ceiling.
C15_Monotone ==
    call.level = "lightweight" =>
        /\ \A i \in DOMAIN g.rung_frames :
              /\ g.rung_frames[i].cap = Some(ClaimedCap(g.rung_frames[i].rung))
              /\ g.rung_frames[i].n <= ClaimedCap(g.rung_frames[i].rung)
              /\ g.rung_frames[i].n >= 1
        /\ \A i, j \in DOMAIN g.rung_frames :
              i < j => g.rung_frames[j].n <= g.rung_frames[i].n
        /\ (r.ret = "force" /\ r.saved) =>
              /\ r.slack
              /\ r.cap = Some(20)
              /\ Len(EncodedFrames(r.frames, r.save_kwargs)) <= 20
              /\ \A i \in DOMAIN g.qualities :
                    g.qualities[i] = Some(30 - 5 * (i - 1))
              /\ (pc \notin {"r_save", "r_descent"}
                      /\ \A i \in DOMAIN g.sizes : g.sizes[i] > 131072) =>
                    g.qualities = << Some(30), Some(25), Some(20), Some(15),
                                     Some(10), Some(5) >>

\* the three rungs have encoded 50, 20 and 10 frames of a source of more
\* than 50, the FrameReduction rung after a whole descent
C15_Witness ==
    /\ call.level = "lightweight"
    /\ procs.self.gif_bytes.n > 50
    /\ Len(g.rung_frames) = 3
    /\ g.rung_frames[1] = [rung |-> "QualitySweep", cap |-> Some(50), n |-> 50]
    /\ g.rung_frames[2] = [rung |-> "FrameReduction", cap |-> Some(20), n |-> 20]
    /\ g.rung_frames[3] = [rung |-> "UltraReduction", cap |-> Some(10), n |-> 10]
    /\ Len(g.qualities) = DescentEncodes
    /\ r.ret = "force"

\* C16: while a lightweight (or an "optimized") call runs, every frame
\* sequence handed to the encoder has at most 50 frames; the "optimized"
\* level returns its resize's bytes only with at most 50 frames and raises
\* the frame-limit error, returning nothing, on a count above 50; and a
\* constrained resize encodes again only after an answer above 131072
\* bytes, whatever the number of frames.
C16_FrameCeiling ==
    /\ call.level \in {"lightweight", "optimized"} =>
          /\ r.saved => Len(EncodedFrames(r.frames, r.save_kwargs)) <= 50
          /\ u.saved => Len(EncodedFrames(u.frames, u.save_kwargs)) <= 50
          /\ \A i \in DOMAIN g.rung_frames : g.rung_frames[i].n <= 50
          /\ g.last_encoded.n <= 50
          /\ r.saved => \A i \in DOMAIN g.sizes :
                            i < Len(g.sizes) => g.sizes[i] > 131072
    /\ \A n \in 0..(MaxSrcFrames + 1) : TooManyFrames(n) <=> n > 50
    /\ DoneStamp("optimized") =>
          /\ Returned => outcome.bytes = s.result /\ outcome.bytes.n <= 50
          /\ s.result.n > 50 =>
                \/ outcome = FrameLimitError(s.result.n)
                \/ outcome = Err("OpenError")
          /\ outcome.err = "FrameLimit" =>
                outcome.reported > 50 /\ outcome.bytes = NoBytes

\* the "optimized" level returns the first 50 frames of a longer source
\* after a single encode that answered the ceiling
C16_Witness ==
    /\ DoneStamp("optimized")
    /\ Returned
    /\ procs.self.gif_bytes.n > 50
    /\ Len(EncodedFrames(r.frames, r.save_kwargs)) = 50
    /\ outcome.bytes.n = 50
    /\ g.sizes = << 131072 >>
    /\ g.encodes = 1

\* the duration and the loop count of the file the running resize reads:
\* the entries of its info, 100 ms and 0 when it has none
SourceDuration ==
    LET gif == procs[r.proc].gif_bytes
    IN IF gif.duration = None THEN 100 ELSE gif.duration[1]

SourceLoop ==
    LET gif == procs[r.proc].gif_bytes
    IN IF gif.loop = None THEN 0 ELSE gif.loop[1]

\* C17: a resize without optimize_for_slack encodes with the source's
\* duration and loop count and with no quality; a constrained resize
\* encodes with the one duration min(source duration, 50), which exceeds
\* neither 50 nor the source's duration, and with the source's loop count.
C17_EncodingMetadata ==
    r.saved =>
        /\ r.result_bytes.duration = Some(r.save_kwargs.duration)
        /\ r.result_bytes.loop = Some(r.save_kwargs.loop)
        /\ r.save_kwargs.loop = SourceLoop
        /\ IF r.slack
           THEN /\ r.save_kwargs.duration = Min(SourceDuration, 50)
                /\ r.save_kwargs.duration <= 50
                /\ r.save_kwargs.duration <= SourceDuration
                /\ r.save_kwargs.quality # None
           ELSE /\ r.save_kwargs.duration = SourceDuration
                /\ r.save_kwargs.quality = None
                /\ r.result_bytes.quality = None

\* a constrained resize of a source with no duration of its own (100 ms)
\* and a loop count of 2 has returned bytes of 50 ms and loop count 2
C17_Witness ==
    /\ Done("resize")
    /\ r.slack
    /\ Returned
    /\ procs.self.gif_bytes.duration = None
    /\ procs.self.gif_bytes.loop = Some(2)
    /\ outcome.bytes.duration = Some(50)
    /\ outcome.bytes.loop = Some(2)

====
